---------------------------- MODULE Spec2Model ----------------------------
(***************************************************************************)
(* Model of the eRechnung PDF/A-3 XML extractor: the structural byte       *)
(* scanners of extract_xml.rs, the stream extractor of pdf.rs and the      *)
(* pipeline ERechnungService::process_pdf of service.rs.                   *)
(*                                                                         *)
(* A buffer is a sequence of bytes.  A byte is written as the one-character *)
(* string of its ASCII character, or as "xNN" for a byte outside printable *)
(* ASCII.  Offsets are 0-based as in the source; Option<T> is a sequence   *)
(* of length 0 (None) or 1 (Some).  A call that panics ends with           *)
(* pc = "panic".                                                           *)
(***************************************************************************)
EXTENDS Naturals, Integers, Sequences, FiniteSets, TLC

VARIABLES pdf_bytes, pc, embedded_files, xml_file, xml_contents, result,
          stages, catalog_pos, obj_start, catalog, validation, extracted

vars == <<pdf_bytes, pc, embedded_files, xml_file, xml_contents, result,
          stages, catalog_pos, obj_start, catalog, validation, extracted>>

-----------------------------------------------------------------------------
(* Byte patterns that occur as literals in the source.                     *)
PDF_SIGNATURE ==
    <<"%", "P", "D", "F", "-">>
PAT_PDFA3 ==
    <<"P", "D", "F", "/", "A", "-", "3">>

PAT_PDFA_PART ==
    <<"p", "d", "f", "a", ":", "p", "a", "r", "t", ">", "3">>

PAT_PDFAID_PART ==
    <<"p", "d", "f", "a", "i", "d", ":", "p", "a", "r", "t", ">", "3">>

PAT_PDFAID_CONF ==
    <<"p", "d", "f", "a", "i", "d", ":", "c", "o", "n", "f", "o", "r", "m", "a", "n", "c", "e">>

PAT_CATALOG ==
    <<"/", "T", "y", "p", "e", " ", "/", "C", "a", "t", "a", "l", "o", "g">>

PAT_OBJ ==
    <<"o", "b", "j">>

PAT_EMBEDDED_FILES ==
    <<"/", "E", "m", "b", "e", "d", "d", "e", "d", "F", "i", "l", "e", "s">>

PAT_NAMES ==
    <<"/", "N", "a", "m", "e", "s">>

PAT_FACTURX ==
    <<"f", "a", "c", "t", "u", "r", "-", "x", ".", "x", "m", "l">>

PAT_STREAM_LF ==
    <<"s", "t", "r", "e", "a", "m", "\n">>

PAT_STREAM ==
    <<"s", "t", "r", "e", "a", "m">>

PAT_ENDSTREAM ==
    <<"e", "n", "d", "s", "t", "r", "e", "a", "m">>

PAT_XML_DECL ==
    <<"<", "?", "x", "m", "l">>

PAT_RSM ==
    <<"<", "r", "s", "m", ":">>

PAT_UBL ==
    <<"<", "u", "b", "l", ":">>

PAT_INVOICE ==
    <<"<", "I", "n", "v", "o", "i", "c", "e">>

DOT_XML ==
    <<".", "x", "m", "l">>

JOIN_SEP ==
    <<",", " ">>

UpperLetters ==
    <<"A", "B", "C", "D", "E", "F", "G", "H", "I", "J", "K", "L", "M", "N", "O", "P", "Q", "R",
    "S", "T", "U", "V", "W", "X", "Y", "Z">>

LowerLetters ==
    <<"a", "b", "c", "d", "e", "f", "g", "h", "i", "j", "k", "l", "m", "n", "o", "p", "q", "r",
    "s", "t", "u", "v", "w", "x", "y", "z">>
-----------------------------------------------------------------------------
(* Primitives of the Rust standard library used by the scanners.           *)

None == <<>>

Some(v) == <<v>>

MinOf(S) == CHOOSE x \in S : \A y \in S : x <= y

MaxOf(S) == CHOOSE x \in S : \A y \in S : x >= y

(* s[a..b] for 0-based offsets a <= b <= Len(s).                           *)
Slice(s, a, b) == SubSeq(s, a + 1, b)

(* str::find / windows(..).position(..): offset of the first occurrence.   *)
Find(s, p) ==
    LET hits == {i \in 0..(Len(s) - Len(p)) : SubSeq(s, i + 1, i + Len(p)) = p}
    IN  IF hits = {} THEN None ELSE Some(MinOf(hits))

Contains(s, p) == Find(s, p) # None

StartsWith(s, p) == Len(s) >= Len(p) /\ SubSeq(s, 1, Len(p)) = p

EndsWith(s, p) == Len(s) >= Len(p) /\ SubSeq(s, Len(s) - Len(p) + 1, Len(s)) = p

saturating_sub(a, b) == IF a >= b THEN a - b ELSE 0

(* char::is_whitespace restricted to bytes.                                *)
Whitespace == {" ", "\t", "\n", "\r", "\f", "x0B"}

(* str::trim: strips leading and trailing whitespace.                      *)
Trim(s) ==
    LET keep == {i \in 1..Len(s) : s[i] \notin Whitespace}
    IN  IF keep = {} THEN <<>> ELSE SubSeq(s, MinOf(keep), MaxOf(keep))

(* char::to_lowercase on one byte; str::to_lowercase on a string.          *)
LowerByte(c) ==
    IF \E k \in 1..Len(UpperLetters) : UpperLetters[k] = c
    THEN LowerLetters[CHOOSE k \in 1..Len(UpperLetters) : UpperLetters[k] = c]
    ELSE c

to_lowercase(s) == [i \in 1..Len(s) |-> LowerByte(s[i])]

(* Bytes that can never occur in well-formed UTF-8.                        *)
InvalidUtf8 == {"xFF", "xFE", "xC0", "xC1"}

(* U+FFFD REPLACEMENT CHARACTER as UTF-8.                                  *)
ReplacementChar == <<"xEF", "xBF", "xBD">>

(* String::from_utf8_lossy: every invalid byte becomes U+FFFD; the bytes   *)
(* before the first invalid one are copied as they are.                    *)
RECURSIVE from_utf8_lossy(_)
from_utf8_lossy(bytes) ==
    LET bad == {i \in 1..Len(bytes) : bytes[i] \in InvalidUtf8}
    IN  IF bad = {} THEN bytes
        ELSE SubSeq(bytes, 1, MinOf(bad) - 1) \o ReplacementChar
             \o from_utf8_lossy(SubSeq(bytes, MinOf(bad) + 1, Len(bytes)))

(* [String]::join(", ").                                                    *)
RECURSIVE Join(_)
Join(names) ==
    IF names = <<>> THEN <<>>
    ELSE IF Len(names) = 1 THEN names[1]
    ELSE names[1] \o JOIN_SEP \o Join(Tail(names))

-----------------------------------------------------------------------------
(* errors.rs: the Display strings of PDFError.                             *)
InvalidPDF == "Not a valid PDF file"

NotPDFA3 == "PDF is not in PDF/A-3 format"

NoXMLFile == "No embedded XML-file"

ExtractionFailed == "XML file found but could not extract content"

(* service.rs: the two success statuses.                                   *)
StatusSuccess == "Success"

StatusNotFacturX == "XML is not Factur-x.xml"

-----------------------------------------------------------------------------
(* extract_xml.rs                                                          *)

(* PDFParser::find_pattern                                                 *)
find_pattern(bytes, pattern) == Find(bytes, pattern)

(* A signature test that compares four bytes only.                         *)
HasSignature_FourBytes(bytes) ==
    ~(Len(bytes) < 4 \/ SubSeq(bytes, 1, 4) # SubSeq(PDF_SIGNATURE, 1, 4))

(* The signature test shared by validate and process_pdf.                  *)
HasSignature(bytes) ==
    ~(Len(bytes) < 5 \/ SubSeq(bytes, 1, 5) # PDF_SIGNATURE)

(* PDFA3Validator::validate: <<>> is Ok(()), otherwise the error.          *)
validate(bytes) ==
    IF ~HasSignature(bytes) THEN Some(InvalidPDF)
    ELSE LET pdf_string == from_utf8_lossy(bytes)
             is_pdfa3 == \/ Contains(pdf_string, PAT_PDFA3)
                         \/ Contains(pdf_string, PAT_PDFA_PART)
                         \/ Contains(pdf_string, PAT_PDFAID_PART)
                         \/ Contains(pdf_string, PAT_PDFAID_CONF)
         IN  IF ~is_pdfa3 THEN Some(NotPDFA3) ELSE None

(* The character loop of find_embedded_files over names_content from     *)
(* index i on; st is [in_string, current_string, embedded_files].  A run   *)
(* of characters other than parentheses is taken in one step.              *)
RECURSIVE ScanNames(_, _, _)
ScanNames(content, i, st) ==
    LET parens == {k \in i..Len(content) : content[k] \in {"(", ")"}}
        j == IF parens = {} THEN Len(content) + 1 ELSE MinOf(parens)
        run == SubSeq(content, i, j - 1)
        current == IF st.in_string THEN st.current_string \o run
                   ELSE st.current_string
    IN  IF parens = {} THEN st.embedded_files
        ELSE IF content[j] = "("
        THEN ScanNames(content, j + 1,
                       [st EXCEPT !.in_string = TRUE, !.current_string = <<>>])
        ELSE ScanNames(content, j + 1,
                       [in_string |-> FALSE, current_string |-> current,
                        embedded_files |->
                            IF st.in_string /\ current # <<>>
                            THEN Append(st.embedded_files, current)
                            ELSE st.embedded_files])

(* The text between the brackets of the names array, as the head of       *)
(* find_embedded_files locates it; None when no array is located.          *)
names_content(bytes) ==
    LET pdf_string == from_utf8_lossy(bytes)
    IN  IF ~Contains(pdf_string, PAT_EMBEDDED_FILES) THEN None
        ELSE
        LET found == Find(pdf_string, PAT_NAMES)
            names_start == IF found = None THEN 0 ELSE found[1]
            names_section == Slice(pdf_string, names_start, Len(pdf_string))
            array_start == Find(names_section, <<"[">>)
        IN  IF array_start = None THEN None
            ELSE
            LET array_end == Find(Slice(names_section, array_start[1],
                                        Len(names_section)), <<"]">>)
            IN  IF array_end = None THEN None
                ELSE Some(Slice(names_section, array_start[1] + 1,
                                array_start[1] + array_end[1]))

(* EmbeddedFilesExtractor::find_embedded_files                             *)
find_embedded_files(bytes) ==
    LET content == names_content(bytes)
    IN  IF content = None THEN <<>>
        ELSE ScanNames(content[1], 1,
                       [in_string |-> FALSE, current_string |-> <<>>,
                        embedded_files |-> <<>>])

(* Whether bytes are well-formed UTF-8, as String::from_utf8 decides it.   *)
IsUtf8(bytes) == \A i \in 1..Len(bytes) : bytes[i] \notin InvalidUtf8

(* The loop of PDFParser::extract_object from index i on; st is          *)
(* [depth, in_dict, start].  Indices at which neither token stands are     *)
(* passed over in one step.                                                *)
RECURSIVE ExtractObjectFrom(_, _, _)
ExtractObjectFrom(bytes, i, st) ==
    LET tokens == {k \in i..(saturating_sub(Len(bytes), 1) - 1) :
                      \/ bytes[k + 1] = "<" /\ bytes[k + 2] = "<"
                      \/ bytes[k + 1] = ">" /\ bytes[k + 2] = ">"}
    IN  IF tokens = {} THEN None
        ELSE
        LET k == MinOf(tokens)
        IN  IF bytes[k + 1] = "<"
            THEN ExtractObjectFrom(bytes, k + 1,
                    [depth |-> st.depth + 1, in_dict |-> TRUE,
                     start |-> IF ~st.in_dict THEN k ELSE st.start])
            ELSE IF st.depth - 1 = 0 /\ st.in_dict
            THEN (IF IsUtf8(Slice(bytes, st.start, k + 2))
                  THEN Some(Slice(bytes, st.start, k + 2)) ELSE None)
            ELSE ExtractObjectFrom(bytes, k + 1, [st EXCEPT !.depth = @ - 1])

(* PDFParser::extract_object                                               *)
extract_object(bytes, start_pos) ==
    ExtractObjectFrom(bytes, start_pos,
                      [depth |-> 0, in_dict |-> FALSE, start |-> 0])

(* One test of the backward loop of find_catalog at obj_start.             *)
AtObj(bytes, at) == Slice(bytes, at, at + 3) = PAT_OBJ

(* The while loop of find_catalog: the value of obj_start when it ends,  *)
(* the nearest offset in 3..at where "obj" stands, or 2 when there is none. *)
ScanBack(bytes, at) ==
    LET hits == {k \in 3..at : AtObj(bytes, k)}
    IN  IF at > 2
        THEN (IF hits # {} THEN MaxOf(hits) ELSE 2)
        ELSE at

(* EmbeddedFilesExtractor::find_catalog                                    *)
find_catalog(bytes) ==
    LET pos == find_pattern(bytes, PAT_CATALOG)
    IN  IF pos = None THEN None
        ELSE extract_object(bytes, ScanBack(bytes, pos[1]))

(* The half-width of the search window around the filename.                *)
SearchWindow == 2000

(* The content test at the end of extract_xml_content.                     *)
LooksLikeXml(trimmed) ==
    \/ StartsWith(trimmed, PAT_XML_DECL)
    \/ StartsWith(trimmed, PAT_RSM)
    \/ StartsWith(trimmed, PAT_UBL)
    \/ StartsWith(trimmed, PAT_INVOICE)

(* EmbeddedFilesExtractor::extract_xml_content                             *)
extract_xml_content(bytes) ==
    LET pdf_string == from_utf8_lossy(bytes)
        filespec_pos == Find(pdf_string, PAT_FACTURX)
    IN  IF filespec_pos = None THEN None
        ELSE
        LET search_start == saturating_sub(filespec_pos[1], SearchWindow)
            search_end == IF filespec_pos[1] + SearchWindow < Len(pdf_string)
                          THEN filespec_pos[1] + SearchWindow
                          ELSE Len(pdf_string)
        IN  IF search_start >= search_end THEN None
            ELSE
            LET search_section == Slice(pdf_string, search_start, search_end)
                stream_start == Find(search_section, PAT_STREAM_LF)
            IN  IF stream_start = None THEN None
                ELSE
                LET abs_stream_start == search_start + stream_start[1] + 7
                IN  IF abs_stream_start >= Len(pdf_string) THEN None
                    ELSE
                    LET stream_end_offset ==
                            Find(Slice(pdf_string, abs_stream_start,
                                       Len(pdf_string)), PAT_ENDSTREAM)
                    IN  IF stream_end_offset = None THEN None
                        ELSE
                        LET abs_stream_end == abs_stream_start + stream_end_offset[1]
                        IN  IF \/ abs_stream_end <= abs_stream_start
                               \/ abs_stream_end > Len(pdf_string)
                            THEN None
                            ELSE
                            LET trimmed == Trim(Slice(pdf_string, abs_stream_start,
                                                      abs_stream_end))
                            IN  IF LooksLikeXml(trimmed)
                                THEN Some(trimmed) ELSE None

(* The bytes 0x80..0xBF that stand inside a character of UTF-8 text, as    *)
(* far as buffers hold them.                                               *)
ContinuationBytes == {"x80", "xA4", "xBC", "xBD", "xBF"}

(* str::is_char_boundary                                                   *)
is_char_boundary(text, index) ==
    \/ index = 0
    \/ index = Len(text)
    \/ index < Len(text) /\ text[index + 1] \notin ContinuationBytes

(* Whether &text[a..b] panics: a range outside the text or an end inside   *)
(* a character.                                                            *)
SlicePanics(text, a, b) ==
    ~(a <= b /\ b <= Len(text)
        /\ is_char_boundary(text, a) /\ is_char_boundary(text, b))

(* Whether extract_xml_content panics: the slice search_section is the     *)
(* only one whose ends are computed and not found by a search.             *)
extract_xml_content_panics(bytes) ==
    LET pdf_string == from_utf8_lossy(bytes)
        filespec_pos == Find(pdf_string, PAT_FACTURX)
    IN  /\ filespec_pos # None
        /\ LET search_start == saturating_sub(filespec_pos[1], SearchWindow)
               search_end == IF filespec_pos[1] + SearchWindow < Len(pdf_string)
                             THEN filespec_pos[1] + SearchWindow
                             ELSE Len(pdf_string)
           IN  /\ ~(search_start >= search_end)
               /\ SlicePanics(pdf_string, search_start, search_end)

-----------------------------------------------------------------------------
(* pdf.rs: the extract_xml_content of that file.                           *)

PAT_RSM_INVOICE ==
    <<"<", "r", "s", "m", ":", "C", "r", "o", "s", "s", "I", "n", "d", "u",
      "s", "t", "r", "y", "I", "n", "v", "o", "i", "c", "e">>

PAT_UBL_INVOICE ==
    <<"<", "u", "b", "l", ":", "I", "n", "v", "o", "i", "c", "e">>

PAT_SUBTYPE_SP ==
    <<"/", "S", "u", "b", "t", "y", "p", "e", " ", "/", "t", "e", "x", "t",
      "#", "2", "F", "x", "m", "l">>

PAT_SUBTYPE ==
    <<"/", "S", "u", "b", "t", "y", "p", "e", "/", "t", "e", "x", "t", "#",
      "2", "F", "x", "m", "l">>

PAT_TEXT_XML ==
    <<"t", "e", "x", "t", "/", "x", "m", "l">>

PAT_STREAM_CR ==
    <<"s", "t", "r", "e", "a", "m", "\r">>

(* The content test of the stream loop of pdf.rs.                          *)
HasXmlMarker(trimmed) ==
    \/ Contains(trimmed, PAT_XML_DECL)
    \/ Contains(trimmed, PAT_INVOICE)
    \/ Contains(trimmed, PAT_RSM_INVOICE)
    \/ Contains(trimmed, PAT_UBL_INVOICE)

(* One iteration of the while loop of pdf.rs from stream_start: what it    *)
(* does ("return", "continue" or "break"), the content it returns and the  *)
(* scan position it continues from.                                        *)
StreamLoopStep(pdf_string, stream_start) ==
    LET start == Find(Slice(pdf_string, stream_start, Len(pdf_string)),
                      PAT_STREAM)
    IN  IF start = None
        THEN [op |-> "break", content |-> <<>>, stream_start |-> stream_start]
        ELSE
        LET absolute_start == stream_start + start[1] + 6
            end_offset == Find(Slice(pdf_string, absolute_start,
                                     Len(pdf_string)), PAT_ENDSTREAM)
        IN  IF end_offset = None
            THEN [op |-> "break", content |-> <<>>,
                  stream_start |-> stream_start]
            ELSE
            LET trimmed == Trim(Slice(pdf_string, absolute_start,
                                      absolute_start + end_offset[1]))
            IN  IF HasXmlMarker(trimmed)
                THEN [op |-> "return", content |-> trimmed,
                      stream_start |-> stream_start]
                ELSE [op |-> "continue", content |-> <<>>,
                      stream_start |-> absolute_start + end_offset[1]]

(* The while loop of pdf.rs: the content it returns, None when it ends     *)
(* without one.                                                            *)
RECURSIVE StreamLoop(_, _)
StreamLoop(pdf_string, stream_start) ==
    LET step == StreamLoopStep(pdf_string, stream_start)
    IN  IF step.op = "return" THEN Some(step.content)
        ELSE IF step.op = "break" THEN None
        ELSE StreamLoop(pdf_string, step.stream_start)

(* The second attempt of pdf.rs: the stream after an XML subtype.          *)
SubtypeStream(pdf_string) ==
    LET sp == Find(pdf_string, PAT_SUBTYPE_SP)
        ns == Find(pdf_string, PAT_SUBTYPE)
        tx == Find(pdf_string, PAT_TEXT_XML)
        xml_pos == IF sp # None THEN sp ELSE IF ns # None THEN ns ELSE tx
    IN  IF xml_pos = None THEN None
        ELSE
        LET tail == Slice(pdf_string, xml_pos[1], Len(pdf_string))
            lf == Find(tail, PAT_STREAM_LF)
            stream_start == IF lf # None THEN lf ELSE Find(tail, PAT_STREAM_CR)
        IN  IF stream_start = None THEN None
            ELSE
            LET absolute_start == xml_pos[1] + stream_start[1] + 7
                end_offset == Find(Slice(pdf_string, absolute_start,
                                         Len(pdf_string)), PAT_ENDSTREAM)
            IN  IF end_offset = None THEN None
                ELSE
                LET trimmed == Trim(Slice(pdf_string, absolute_start,
                                          absolute_start + end_offset[1]))
                IN  IF \/ StartsWith(trimmed, PAT_XML_DECL)
                       \/ StartsWith(trimmed, <<"<">>)
                    THEN Some(trimmed) ELSE None

(* pdf.rs: EmbeddedFilesExtractor::extract_xml_content                     *)
extract_xml_content_pdf(bytes) ==
    LET pdf_string == from_utf8_lossy(bytes)
        looped == StreamLoop(pdf_string, 0)
    IN  IF looped # None THEN looped ELSE SubtypeStream(pdf_string)

-----------------------------------------------------------------------------
(* extract_xml_from_pdf_bytes, which service.rs imports from extract_xml   *)
(* and calls with the buffer alone; its body is not part of the sources.   *)
(* Stage 5 of the pipeline: the stream extractor of the same module,       *)
(* whose absence of content is the failure.  Ok(v) is [ok |-> TRUE, val |-> v]. *)
extract_xml_from_pdf_bytes(bytes) ==
    LET content == extract_xml_content(bytes)
    IN  IF content = None THEN [ok |-> FALSE, val |-> <<>>]
        ELSE [ok |-> TRUE, val |-> <<content[1]>>]

-----------------------------------------------------------------------------
(* service.rs: ERechnungService::process_pdf                               *)

(* models.rs: ErrorResponse; embedded_files is an Option<String>.          *)
ErrorResponse(status, files) ==
    [ok |-> FALSE, file_status |-> status, embedded_files |-> files,
     xml_content |-> <<>>, xml_filename |-> <<>>]

(* models.rs: SuccessResponse.                                             *)
SuccessResponse(status, files, content, filename) ==
    [ok |-> TRUE, file_status |-> status, embedded_files |-> Some(files),
     xml_content |-> content, xml_filename |-> filename]

NoResponse == ErrorResponse("", None)

IsXmlName(name) == EndsWith(to_lowercase(name), DOT_XML)

(* A selection without the suffix filter: the first entry.                 *)
FindXmlFile_First(files) ==
    IF files = <<>> THEN None ELSE Some(files[1])

(* A selection that prefers the canonical file name.                       *)
FindXmlFile_PreferCanonical(files) ==
    LET hits == {i \in 1..Len(files) : IsXmlName(files[i])}
        canon == {i \in hits : to_lowercase(files[i]) = PAT_FACTURX}
    IN  IF hits = {} THEN None
        ELSE IF canon # {} THEN Some(files[MinOf(canon)])
        ELSE Some(files[MinOf(hits)])

(* embedded_files.iter().find(|name| name.to_lowercase().ends_with(".xml")) *)
FindXmlFile(files) ==
    LET hits == {i \in 1..Len(files) : IsXmlName(files[i])}
    IN  IF hits = {} THEN None ELSE Some(files[MinOf(hits)])

InvoiceContent(content) ==
    \/ Contains(content, PAT_RSM)
    \/ Contains(content, PAT_UBL)
    \/ Contains(content, PAT_INVOICE)

(* xml_contents.iter().find(..).or_else(|| xml_contents.first())           *)
FindXmlContent(contents) ==
    LET hits == {i \in 1..Len(contents) : InvoiceContent(contents[i])}
    IN  IF hits # {} THEN Some(contents[MinOf(hits)])
        ELSE IF contents # <<>> THEN Some(contents[1])
        ELSE None

(* The status of a success, from the selected file name.                   *)
StatusOf(name) ==
    IF to_lowercase(name) = PAT_FACTURX THEN StatusSuccess ELSE StatusNotFacturX

(* A signature stage followed by a catalog gate.                           *)
CheckSignature_CatalogGate ==
    /\ pc = "start"
    /\ stages' = Append(stages, "signature")
    /\ IF ~HasSignature(pdf_bytes) \/ find_catalog(pdf_bytes) = None
       THEN /\ result' = ErrorResponse(InvalidPDF, None)
            /\ pc' = "done"
       ELSE /\ pc' = "list"
            /\ UNCHANGED result
    /\ UNCHANGED <<validation, extracted>>
    /\ UNCHANGED <<pdf_bytes, embedded_files, xml_file, xml_contents,
                   catalog_pos, obj_start, catalog>>

(* service.rs:12-17 the signature test.                                    *)
CheckSignature ==
    /\ pc = "start"
    /\ stages' = Append(stages, "signature")
    /\ IF ~HasSignature(pdf_bytes)
       THEN /\ result' = ErrorResponse(InvalidPDF, None)
            /\ pc' = "done"
       ELSE /\ pc' = "list"
            /\ UNCHANGED result
    /\ UNCHANGED <<validation, extracted>>
    /\ UNCHANGED <<pdf_bytes, embedded_files, xml_file, xml_contents,
                   catalog_pos, obj_start, catalog>>

(* service.rs:19-27 the name listing.                                      *)
ListEmbeddedFiles ==
    /\ pc = "list"
    /\ stages' = Append(stages, "list")
    /\ embedded_files' = find_embedded_files(pdf_bytes)
    /\ IF embedded_files' = <<>>
       THEN /\ result' = ErrorResponse(NoXMLFile, None)
            /\ pc' = "done"
       ELSE /\ pc' = "select"
            /\ UNCHANGED result
    /\ UNCHANGED <<validation, extracted>>
    /\ UNCHANGED <<pdf_bytes, xml_file, xml_contents,
                   catalog_pos, obj_start, catalog>>

(* service.rs:29-36 the selection of the XML entry.                        *)
SelectXmlFile ==
    /\ pc = "select"
    /\ stages' = Append(stages, "select")
    /\ xml_file' = FindXmlFile(embedded_files)
    /\ IF xml_file' = None
       THEN /\ result' = ErrorResponse(NoXMLFile, Some(Join(embedded_files)))
            /\ pc' = "done"
       ELSE /\ pc' = "extract"
            /\ UNCHANGED result
    /\ UNCHANGED <<validation, extracted>>
    /\ UNCHANGED <<pdf_bytes, embedded_files, xml_contents,
                   catalog_pos, obj_start, catalog>>

(* service.rs:38-44 the stream extraction.                                 *)
ExtractContents ==
    /\ pc = "extract"
    /\ stages' = Append(stages, "extract")
    /\ IF extract_xml_content_panics(pdf_bytes)
       THEN /\ pc' = "panic"
            /\ UNCHANGED <<xml_contents, result>>
       ELSE
       LET r == extract_xml_from_pdf_bytes(pdf_bytes)
       IN  IF ~r.ok
           THEN /\ result' = ErrorResponse(ExtractionFailed,
                                           Some(Join(embedded_files)))
                /\ pc' = "done"
                /\ UNCHANGED xml_contents
           ELSE /\ xml_contents' = r.val
                /\ pc' = "respond"
                /\ UNCHANGED result
    /\ UNCHANGED <<validation, extracted>>
    /\ UNCHANGED <<pdf_bytes, embedded_files, xml_file,
                   catalog_pos, obj_start, catalog>>

(* service.rs:46-73 the choice of the content and the response.            *)
Respond ==
    /\ pc = "respond"
    /\ stages' = Append(stages, "respond")
    /\ LET xml_content == FindXmlContent(xml_contents)
       IN  result' =
             IF xml_content = None
             THEN ErrorResponse(ExtractionFailed, Some(Join(embedded_files)))
             ELSE SuccessResponse(StatusOf(xml_file[1]), Join(embedded_files),
                                  xml_content[1], xml_file[1])
    /\ pc' = "done"
    /\ UNCHANGED <<validation, extracted>>
    /\ UNCHANGED <<pdf_bytes, embedded_files, xml_file, xml_contents,
                   catalog_pos, obj_start, catalog>>

-----------------------------------------------------------------------------
(* find_catalog, statement by statement.                                   *)

(* extract_xml.rs:66-69                                                    *)
CatalogFind ==
    /\ pc = "catalog"
    /\ catalog_pos' = find_pattern(pdf_bytes, PAT_CATALOG)
    /\ IF catalog_pos' = None
       THEN /\ pc' = "catalog_done"
            /\ UNCHANGED obj_start
       ELSE /\ pc' = "scan_back"
            /\ obj_start' = catalog_pos'[1]
    /\ stages' = Append(stages, "find_pattern")
    /\ UNCHANGED <<validation, extracted>>
    /\ UNCHANGED <<pdf_bytes, embedded_files, xml_file, xml_contents, result,
                   catalog>>

(* extract_xml.rs:70-75 one iteration of the backward loop.                *)
CatalogScanBack ==
    /\ pc = "scan_back"
    /\ obj_start > 2
    /\ IF AtObj(pdf_bytes, obj_start)
       THEN /\ pc' = "extract_object"
            /\ UNCHANGED obj_start
       ELSE /\ obj_start' = saturating_sub(obj_start, 1)
            /\ UNCHANGED pc
    /\ UNCHANGED <<validation, extracted>>
    /\ UNCHANGED <<pdf_bytes, embedded_files, xml_file, xml_contents, result,
                   stages, catalog_pos, catalog>>

(* extract_xml.rs:70 the loop condition fails.                             *)
CatalogScanEnd ==
    /\ pc = "scan_back"
    /\ ~(obj_start > 2)
    /\ pc' = "extract_object"
    /\ UNCHANGED <<validation, extracted>>
    /\ UNCHANGED <<pdf_bytes, embedded_files, xml_file, xml_contents, result,
                   stages, catalog_pos, obj_start, catalog>>

(* extract_xml.rs:77                                                       *)
CatalogExtract ==
    /\ pc = "extract_object"
    /\ catalog' = extract_object(pdf_bytes, obj_start)
    /\ stages' = Append(stages, "extract_object")
    /\ pc' = "catalog_done"
    /\ UNCHANGED <<validation, extracted>>
    /\ UNCHANGED <<pdf_bytes, embedded_files, xml_file, xml_contents, result,
                   catalog_pos, obj_start>>

-----------------------------------------------------------------------------
(* The buffers the model is run on, assembled from parts of PDF files.     *)

HeaderOk ==
    <<"%", "P", "D", "F", "-", "1", ".", "7", "\n">>

HeaderBinary ==
    <<"%", "P", "D", "F", "-", "1", ".", "7", "\n", "%", "xFF", "\n">>

HeaderNotPdf ==
    <<"N", "o", "t", " ", "a", " ", "P", "D", "F", "\n">>

BufTruncatedSig ==
    <<"%", "P", "D", "F">>

BufFourBytes ==
    <<"x00", "x01", "x02", "x03">>

MarkerPart ==
    <<"<", "p", "d", "f", "a", "i", "d", ":", "p", "a", "r", "t", ">", "3", "<", "/", "p", "d",
    "f", "a", "i", "d", ":", "p", "a", "r", "t", ">", "\n">>

CatalogObj ==
    <<"1", " ", "0", " ", "o", "b", "j", "\n", "<", "<", " ", "/", "T", "y", "p", "e", " ",
    "/", "C", "a", "t", "a", "l", "o", "g", " ", ">", ">", "\n", "e", "n", "d", "o", "b", "j",
    "\n">>

NameTreeOpen ==
    <<"<", "<", " ", "/", "E", "m", "b", "e", "d", "d", "e", "d", "F", "i", "l", "e", "s", " ",
    "<", "<", " ", "/", "N", "a", "m", "e", "s", " ", "[">>

NameTreeClose ==
    <<"]", " ", ">", ">", " ", ">", ">", "\n">>

NameFacturX ==
    <<"f", "a", "c", "t", "u", "r", "-", "x", ".", "x", "m", "l">>

NameOtherXml ==
    <<"a", ".", "x", "m", "l">>

NameUpperXml ==
    <<"B", ".", "X", "M", "L">>

NameText ==
    <<"c", ".", "t", "x", "t">>

StreamXml ==
    <<"2", " ", "0", " ", "o", "b", "j", "\n", "s", "t", "r", "e", "a", "m", "\n", "<", "?",
    "x", "m", "l", "?", ">", "<", "r", "s", "m", ":", "I", "/", ">", "\n", "e", "n", "d", "s",
    "t", "r", "e", "a", "m", "\n">>

StreamHello ==
    <<"2", " ", "0", " ", "o", "b", "j", "\n", "s", "t", "r", "e", "a", "m", "\n", "H", "e",
    "l", "l", "o", " ", "W", "o", "r", "l", "d", "\n", "e", "n", "d", "s", "t", "r", "e", "a",
    "m", "\n">>

StreamRsm ==
    <<"2", " ", "0", " ", "o", "b", "j", "\n", "s", "t", "r", "e", "a", "m", "\n", " ", "<",
    "r", "s", "m", ":", "I", "/", ">", " ", "\n", "e", "n", "d", "s", "t", "r", "e", "a", "m",
    "\n">>

StreamCrLf ==
    <<"2", " ", "0", " ", "o", "b", "j", "\n", "s", "t", "r", "e", "a", "m", "\r", "\n", "<",
    "?", "x", "m", "l", "?", ">", "\r", "\n", "e", "n", "d", "s", "t", "r", "e", "a", "m",
    "\n">>

StreamMidXml ==
    <<"2", " ", "0", " ", "o", "b", "j", "\n", "s", "t", "r", "e", "a", "m", "\n", "H", "<",
    "?", "x", "m", "l", "?", ">", "\n", "e", "n", "d", "s", "t", "r", "e", "a", "m", "\n">>
ObjHeader ==
    <<"1", " ", "0", " ", "o", "b", "j", "\n">>
DictOpen ==
    <<"<", "<", " ">>
DictClose ==
    <<" ", ">", ">", "\n">>
TypePage ==
    <<"/", "T", "y", "p", "e", " ", "/", "P", "a", "g", "e">>
OtherDict ==
    <<"<", "<", " ", "/", "A", " ", "1", " ", ">", ">", "\n">>

HelloWorld ==
    <<"H", "e", "l", "l", "o", " ", "W", "o", "r", "l", "d">>

StreamHtml ==
    <<"2", " ", "0", " ", "o", "b", "j", "\n", "s", "t", "r", "e", "a", "m", "\n", "<", "p",
    ">", "H", "i", "<", "/", "p", ">", "\n", "e", "n", "d", "s", "t", "r", "e", "a", "m", "\n">>

(* The largest number of entries of a names array.                         *)
MaxEntries == 2

(* The largest number of filler bytes between an object header and its    *)
(* dictionary.                                                             *)
MaxGap == 2

EntryNames == {NameFacturX, NameOtherXml, NameUpperXml, NameText}

RECURSIVE Concat(_)
Concat(parts) == IF parts = <<>> THEN <<>> ELSE parts[1] \o Concat(Tail(parts))

(* The text of a names array holding the given names: (n1)(n2)...          *)
EntriesText(names) ==
    Concat([i \in 1..Len(names) |-> <<"(">> \o names[i] \o <<")">>])

NameLists == UNION {[1..n -> EntryNames] : n \in 0..MaxEntries}

NameTrees ==
    {<<>>} \cup {NameTreeOpen \o EntriesText(names) \o NameTreeClose :
                 names \in NameLists}

Headers == {HeaderOk, HeaderBinary, HeaderNotPdf}

Markers == {<<>>, MarkerPart}

Catalogs == {<<>>, CatalogObj}

Streams ==
    {<<>>, StreamXml, StreamHello, StreamRsm, StreamCrLf, StreamMidXml,
     StreamHtml}

ShortBuffers == {<<>>, BufTruncatedSig, BufFourBytes}

Filler(k) == [i \in 1..k |-> " "]

(* Buffers whose stream keyword ends just inside, and just outside, the   *)
(* search window after the file name.                                      *)
PaddedBuffers ==
    {HeaderOk \o MarkerPart \o NameTreeOpen \o EntriesText(<<NameFacturX>>)
       \o NameTreeClose \o Filler(k) \o StreamXml :
        k \in {SearchWindow - 36, SearchWindow - 35}}

(* Buffers whose file name stands SearchWindow + d bytes after the start   *)
(* of the three bytes that the invalid byte 0xFF decodes to.               *)
LongCharBuffers ==
    {HeaderOk \o MarkerPart \o <<"xFF">>
       \o Filler(SearchWindow - Len(ReplacementChar) - Len(NameTreeOpen) - 1 + d)
       \o NameTreeOpen \o EntriesText(<<NameFacturX>>) \o NameTreeClose \o s :
        d \in {1, Len(ReplacementChar)}, s \in {<<>>, StreamXml}}

Buffers ==
    ShortBuffers \cup PaddedBuffers \cup LongCharBuffers \cup
    {h \o m \o c \o n \o s :
        h \in Headers, m \in Markers, c \in Catalogs, n \in NameTrees,
        s \in Streams}

CatalogBuffers ==
    {<<>>, PAT_CATALOG, PAT_CATALOG \o DictClose} \cup
    {h \o pre \o o \o Filler(k) \o d \o t \o c :
        h \in {<<>>, HeaderOk}, pre \in {<<>>, OtherDict},
        o \in {<<>>, ObjHeader}, k \in 0..MaxGap,
        d \in {<<>>, DictOpen}, t \in {PAT_CATALOG, TypePage},
        c \in {<<>>, DictClose}}

-----------------------------------------------------------------------------
(* The pipeline: one call of process_pdf on one buffer.                    *)

Init ==
    /\ pdf_bytes \in Buffers
    /\ pc = "start"
    /\ embedded_files = <<>>
    /\ xml_file = None
    /\ xml_contents = <<>>
    /\ result = NoResponse
    /\ stages = <<>>
    /\ catalog_pos = None
    /\ obj_start = 0
    /\ catalog = None
    /\ validation = None
    /\ extracted = None

Next ==
    \/ CheckSignature
    \/ ListEmbeddedFiles
    \/ SelectXmlFile
    \/ ExtractContents
    \/ Respond

Spec == Init /\ [][Next]_vars

(* One call of find_catalog on one buffer.                                 *)
InitCatalog ==
    /\ pdf_bytes \in CatalogBuffers
    /\ pc = "catalog"
    /\ embedded_files = <<>>
    /\ xml_file = None
    /\ xml_contents = <<>>
    /\ result = NoResponse
    /\ stages = <<>>
    /\ catalog_pos = None
    /\ obj_start = 0
    /\ catalog = None
    /\ validation = None
    /\ extracted = None

NextCatalog ==
    \/ CatalogFind
    \/ CatalogScanBack
    \/ CatalogScanEnd
    \/ CatalogExtract

SpecCatalog == InitCatalog /\ [][NextCatalog]_vars

-----------------------------------------------------------------------------
(* Properties of process_pdf and find_catalog.                             *)

Done == pc = "done"

(* The call has returned or has panicked.                                  *)
Ended == pc \in {"done", "panic"}

Listed == \E i \in 1..Len(stages) : stages[i] = "list"

(* The buffer is shorter than five bytes or does not start with "%PDF-".   *)
NotAPdf(bytes) ==
    Len(bytes) < 5 \/ \E i \in 1..5 : bytes[i] # PDF_SIGNATURE[i]

(* The validator of extract_xml.rs accepts the buffer.                     *)
Conformant(bytes) == validate(bytes) = None

(* The names the listing discovers, and the ".xml" suffix test of the      *)
(* selection, compared without regard to case.                             *)
Discovered == find_embedded_files(pdf_bytes)

HasXmlSuffix(name) ==
    /\ Len(name) >= 4
    /\ to_lowercase(SubSeq(name, Len(name) - 3, Len(name))) = DOT_XML

(* The names a response carries: none for no names, the joined list else.  *)
Carried(names) ==
    IF names = <<>> THEN None
    ELSE Some(Concat([i \in 1..Len(names) |->
                        IF i = 1 THEN names[i] ELSE JOIN_SEP \o names[i]]))

(* The root element prefix of an RDF document.                             *)
PAT_RDF ==
    <<"<", "r", "d", "f", ":", "R", "D", "F">>

(* The content classifier: trimmed content that starts with an XML         *)
(* declaration or a known invoice root element.                            *)
LooksLikeInvoiceXml(content) ==
    \E p \in {PAT_XML_DECL, PAT_RSM, PAT_UBL, PAT_INVOICE, PAT_RDF} :
        StartsWith(Trim(content), p)

(* The bytes from just after a stream keyword at offset i up to the next   *)
(* endstream keyword, if there is one.                                     *)
StreamBodyAt(text, i) ==
    LET rest == Slice(text, i + Len(PAT_STREAM), Len(text))
        e == Find(rest, PAT_ENDSTREAM)
    IN  IF e = None THEN None ELSE Some(Slice(rest, 0, e[1]))

(* No stream ... endstream region of the buffer holds invoice XML.         *)
NoInvoiceStream(bytes) ==
    LET text == from_utf8_lossy(bytes)
    IN  \A i \in 0..(Len(text) - Len(PAT_STREAM)) :
            Slice(text, i, i + Len(PAT_STREAM)) = PAT_STREAM =>
                \/ StreamBodyAt(text, i) = None
                \/ ~LooksLikeInvoiceXml(StreamBodyAt(text, i)[1])

(* C1: a buffer shorter than 5 bytes or without the "%PDF-" signature ends *)
(* with the InvalidPDF error, carries no names, and no stage after the     *)
(* signature test is performed on it.                                      *)
C1_InvalidInputRejected ==
    NotAPdf(pdf_bytes) =>
        /\ \A i \in 1..Len(stages) : stages[i] = "signature"
        /\ pc \in {"start", "done"}
        /\ Done => result = ErrorResponse(InvalidPDF, None)
        /\ embedded_files = <<>>

C1_Witness ==
    /\ Done
    /\ NotAPdf(pdf_bytes)
    /\ Len(pdf_bytes) >= 5
    /\ Discovered # <<>>
    /\ result.file_status = InvalidPDF

(* C2: a buffer with the signature but without a PDF/A-3 marker ends with  *)
(* the NotPDFA3 error, whatever names or streams it holds.                 *)
C2_NonConformantRejected ==
    (Done /\ validate(pdf_bytes) = Some(NotPDFA3)) =>
        result = ErrorResponse(NotPDFA3, None)

(* C3: the name listing is only reached after the conformance check        *)
(* (signature and PDF/A-3 marker) has succeeded.                           *)
C3_ValidationBeforeListing ==
    (Listed \/ pc \in {"list", "select", "extract", "respond"}) =>
        Conformant(pdf_bytes)

(* The buffer holds one stream, opened by "stream" and a line feed, whose  *)
(* content starts with an XML declaration and which endstream closes.      *)
WellFormedXmlStream(bytes) ==
    LET s == Find(bytes, PAT_STREAM_LF \o PAT_XML_DECL)
    IN  /\ s # None
        /\ Find(bytes, PAT_STREAM) = s
        /\ StreamBodyAt(bytes, s[1]) # None
        /\ Len(bytes) < SearchWindow

C5_NoXmlNameReported ==
    (/\ Done
     /\ Conformant(pdf_bytes)
     /\ \A i \in 1..Len(Discovered) : ~HasXmlSuffix(Discovered[i])) =>
        result = ErrorResponse(NoXMLFile, Carried(Discovered))

C5_Witness ==
    /\ Done
    /\ Conformant(pdf_bytes)
    /\ Discovered = <<NameText, NameText>>
    /\ result.file_status = NoXMLFile
    /\ result.embedded_files # None

NoCatalog == "No catalog"

C9_CanonicalNamePreferred ==
    (/\ Done
     /\ Conformant(pdf_bytes)
     /\ result.ok
     /\ \E i \in 1..Len(Discovered) : to_lowercase(Discovered[i]) = PAT_FACTURX) =>
        /\ to_lowercase(result.xml_filename) = PAT_FACTURX
        /\ result.file_status = StatusSuccess

(* C9 amended: a success carries the first discovered name in document     *)
(* order that ends in ".xml" (without regard to case), also when a later   *)
(* name is the canonical one; the status is the canonical one exactly when *)
(* that first name is "factur-x.xml" (without regard to case).             *)
C9_FirstXmlNameSelected ==
    (Done /\ result.ok) =>
        /\ \E i \in 1..Len(Discovered) :
              /\ result.xml_filename = Discovered[i]
              /\ HasXmlSuffix(Discovered[i])
              /\ \A j \in 1..(i - 1) : ~HasXmlSuffix(Discovered[j])
        /\ (result.file_status = StatusSuccess) <=>
              (to_lowercase(result.xml_filename) = PAT_FACTURX)

C9_Witness ==
    /\ Done
    /\ Conformant(pdf_bytes)
    /\ result.ok
    /\ Discovered = <<NameOtherXml, NameFacturX>>
    /\ result.xml_filename = NameOtherXml
    /\ result.file_status = StatusNotFacturX

(* No "obj" token stands at an offset the backward loop inspects.          *)
NoObjBefore(bytes, pos) ==
    \A k \in 0..pos : Slice(bytes, k, k + 3) # PAT_OBJ

(* C10: find_catalog yields none when the catalog marker is absent and    *)
(* when no "obj" token precedes the marker: no region is returned then.    *)
C10_NoneWithoutObj ==
    (/\ pc = "catalog_done"
     /\ \/ catalog_pos = None
        \/ NoObjBefore(pdf_bytes, catalog_pos[1])) =>
        catalog = None

-----------------------------------------------------------------------------
(* One call of extract_object on one buffer from one start offset.         *)

(* The longest buffer handed to extract_object.                            *)
MaxObjLen == 6

ObjBytes == {"<", ">", "a"}

ObjBuffers == UNION {[1..n -> ObjBytes] : n \in 0..MaxObjLen}

InitObject ==
    /\ pdf_bytes \in ObjBuffers
    /\ obj_start \in 0..Len(pdf_bytes)
    /\ pc = "object"
    /\ embedded_files = <<>>
    /\ xml_file = None
    /\ xml_contents = <<>>
    /\ result = NoResponse
    /\ stages = <<>>
    /\ catalog_pos = None
    /\ catalog = None
    /\ validation = None
    /\ extracted = None

ObjectExtract ==
    /\ pc = "object"
    /\ catalog' = extract_object(pdf_bytes, obj_start)
    /\ pc' = "object_done"
    /\ stages' = Append(stages, "extract_object")
    /\ UNCHANGED <<validation, extracted>>
    /\ UNCHANGED <<pdf_bytes, embedded_files, xml_file, xml_contents, result,
                   catalog_pos, obj_start>>

NextObject == ObjectExtract

SpecObject == InitObject /\ [][NextObject]_vars

(* The region the balanced scan is described to return: tokens are read    *)
(* left to right without overlap, a close token before any open token is   *)
(* passed over, and the region runs from the first open token to just      *)
(* after the close token that brings the depth back to zero.               *)
RECURSIVE BalancedFrom(_, _, _, _)
BalancedFrom(bytes, i, depth, start) ==
    IF i + 2 > Len(bytes) THEN None
    ELSE IF bytes[i + 1] = "<" /\ bytes[i + 2] = "<"
    THEN BalancedFrom(bytes, i + 2, depth + 1,
                      IF depth = 0 THEN i ELSE start)
    ELSE IF bytes[i + 1] = ">" /\ bytes[i + 2] = ">"
    THEN (IF depth = 0 THEN BalancedFrom(bytes, i + 2, 0, start)
          ELSE IF depth = 1 THEN Some(<<start, i + 2>>)
          ELSE BalancedFrom(bytes, i + 2, depth - 1, start))
    ELSE BalancedFrom(bytes, i + 1, depth, start)

BalancedRegion(bytes, start_pos) == BalancedFrom(bytes, start_pos, 0, 0)

(* C11: for every buffer and start offset, extract_object returns the      *)
(* first balanced region after the offset, from the first open token to    *)
(* just after the close token that brings the depth back to zero; close    *)
(* tokens before any open token and overlapping tokens do not change the   *)
(* region, and there is no value exactly when there is no such region.     *)
C11_BalancedRegionReturned ==
    pc = "object_done" =>
        LET region == BalancedRegion(pdf_bytes, obj_start)
        IN  IF region = None THEN catalog = None
            ELSE /\ obj_start <= region[1][1]
                 /\ region[1][1] < region[1][2]
                 /\ region[1][2] <= Len(pdf_bytes)
                 /\ catalog = Some(Slice(pdf_bytes, region[1][1], region[1][2]))

-----------------------------------------------------------------------------
(* One call of find_embedded_files on one buffer.                          *)

PreNamesArray ==
    <<"/", "N", "a", "m", "e", "s", " ", "[", "(", "d", "1", ")", "]", " ">>

PreArray ==
    <<"[", "(", "x", ".", "t", "x", "t", ")", "]", " ">>

PreCatalogNames ==
    <<"/", "N", "a", "m", "e", "s", " ", "<", "<", " ">>

NamesKey ==
    <<"/", "N", "a", "m", "e", "s", " ">>

EntryXml ==
    <<"(", "a", ".", "x", "m", "l", ")">>

EntryFacturX ==
    <<"(", "f", "a", "c", "t", "u", "r", "-", "x", ".", "x", "m", "l", ")">>

EntryNested ==
    <<"(", "a", "(", "b", ")", "c", ")">>

EntryEmpty ==
    <<"(", ")">>

EntryRef ==
    <<" ", "5", " ", "0", " ", "R", " ">>

MarkerEmbedded ==
    <<"/", "E", "m", "b", "e", "d", "d", "e", "d", "F", "i", "l", "e", "s",
      " ">>

(* The largest number of entries of a names array handed to               *)
(* find_embedded_files.                                                    *)
MaxArrayEntries == 2

ArrayEntries == {EntryXml, EntryFacturX, EntryNested, EntryEmpty, EntryRef}

ArrayTexts ==
    {Concat(es) : es \in UNION {[1..n -> ArrayEntries] : n \in 0..MaxArrayEntries}}

NameArrays ==
    {<<>>} \cup {<<"[">> \o t \o <<"]">> : t \in ArrayTexts}
           \cup {<<"[">> \o EntryXml}

NamesBuffers ==
    {HeaderOk \o pre \o m \o k \o a :
        pre \in {<<>>, PreNamesArray, PreArray, PreCatalogNames},
        m \in {<<>>, MarkerEmbedded},
        k \in {<<>>, NamesKey},
        a \in NameArrays}

InitNames ==
    /\ pdf_bytes \in NamesBuffers
    /\ pc = "names"
    /\ embedded_files = <<>>
    /\ xml_file = None
    /\ xml_contents = <<>>
    /\ result = NoResponse
    /\ stages = <<>>
    /\ catalog_pos = None
    /\ obj_start = 0
    /\ catalog = None
    /\ validation = None
    /\ extracted = None

NamesList ==
    /\ pc = "names"
    /\ embedded_files' = find_embedded_files(pdf_bytes)
    /\ pc' = "names_done"
    /\ stages' = Append(stages, "find_embedded_files")
    /\ UNCHANGED <<validation, extracted>>
    /\ UNCHANGED <<pdf_bytes, xml_file, xml_contents, result, catalog_pos,
                   obj_start, catalog>>

NextNames == NamesList

SpecNames == InitNames /\ [][NextNames]_vars

(* The names array as it is described: the first [...] after the first     *)
(* /Names token at or after the /EmbeddedFiles marker; None without the    *)
(* marker, without such a token or without such an array.                  *)
ArrayAfterMarker(bytes) ==
    LET pdf_string == from_utf8_lossy(bytes)
        marker == Find(pdf_string, PAT_EMBEDDED_FILES)
    IN  IF marker = None THEN None
        ELSE
        LET after_marker == Slice(pdf_string, marker[1], Len(pdf_string))
            names == Find(after_marker, PAT_NAMES)
        IN  IF names = None THEN None
            ELSE
            LET section == Slice(after_marker, names[1], Len(after_marker))
                array_start == Find(section, <<"[">>)
            IN  IF array_start = None THEN None
                ELSE
                LET array_end == Find(Slice(section, array_start[1],
                                            Len(section)), <<"]">>)
                IN  IF array_end = None THEN None
                    ELSE Some(Slice(section, array_start[1] + 1,
                                    array_start[1] + array_end[1]))

NamesIn(content) ==
    ScanNames(content, 1, [in_string |-> FALSE, current_string |-> <<>>,
                           embedded_files |-> <<>>])

(* C12: names are listed only when /EmbeddedFiles is present, and from the *)
(* first [...] array after the first /Names token at or after that marker: *)
(* a /Names token or an array before the marker is never used, and without *)
(* a /Names token after the marker no names are returned.                  *)
C12_ArrayFollowsMarker ==
    pc = "names_done" =>
        LET array == ArrayAfterMarker(pdf_bytes)
        IN  embedded_files = IF array = None THEN <<>> ELSE NamesIn(array[1])

(* The literal-string tokens of a names array in document order: an entry  *)
(* runs from a parenthesis opened at depth 0 to the one that closes it,    *)
(* and counts when it is non-empty and holds no parenthesis of its own.    *)
RECURSIVE LiteralFrom(_, _, _, _, _, _)
LiteralFrom(content, i, depth, open_at, nested, names) ==
    LET parens == {k \in i..Len(content) : content[k] \in {"(", ")"}}
    IN  IF parens = {} THEN names
        ELSE
        LET j == MinOf(parens)
            name == SubSeq(content, open_at + 1, j - 1)
        IN  IF content[j] = "("
            THEN (IF depth = 0
                  THEN LiteralFrom(content, j + 1, 1, j, FALSE, names)
                  ELSE LiteralFrom(content, j + 1, depth + 1, open_at, TRUE,
                                   names))
            ELSE IF depth = 0
            THEN LiteralFrom(content, j + 1, 0, open_at, nested, names)
            ELSE IF depth = 1
            THEN LiteralFrom(content, j + 1, 0, open_at, FALSE,
                             IF ~nested /\ name # <<>>
                             THEN Append(names, name) ELSE names)
            ELSE LiteralFrom(content, j + 1, depth - 1, open_at, nested, names)

LiteralNames(content) == LiteralFrom(content, 1, 0, 0, FALSE, <<>>)

(* C13: the names returned are the literal-string tokens (name) of the     *)
(* located array in document order, each non-empty, and an entry with      *)
(* nested parentheses contributes nothing, neither itself nor a fragment.  *)
C13_LiteralNamesOnly ==
    (pc = "names_done" /\ names_content(pdf_bytes) # None) =>
        /\ embedded_files = LiteralNames(names_content(pdf_bytes)[1])
        /\ \A i \in 1..Len(embedded_files) : embedded_files[i] # <<>>

-----------------------------------------------------------------------------
(* One call of PDFA3Validator::validate on one buffer.                     *)

FieldPart ==
    <<"p", "d", "f", "a", "i", "d", ":", "p", "a", "r", "t">>

FieldConformance ==
    <<"p", "d", "f", "a", "i", "d", ":", "c", "o", "n", "f", "o", "r", "m",
      "a", "n", "c", "e">>

FieldPdfaPart ==
    <<"p", "d", "f", "a", ":", "p", "a", "r", "t">>

XmpOther ==
    <<"<", "d", "c", ":", "t", "i", "t", "l", "e", ">", "3", "<", "/", "d",
      "c", ":", "t", "i", "t", "l", "e", ">">>

(* <field>value</field>                                                    *)
FieldElement(field, value) ==
    <<"<">> \o field \o <<">">> \o value \o <<"<", "/">> \o field \o <<">">>

(* field="value"                                                           *)
FieldAttribute(field, value) ==
    field \o <<"=", "\"">> \o value \o <<"\"">>

XmpFields ==
    {form[1] \o <<"\n">> :
        form \in {<<FieldElement(f, v)>> :
                      f \in {FieldPart, FieldConformance, FieldPdfaPart},
                      v \in {<<"3">>, <<"1">>, <<"B">>}}
             \cup {<<FieldAttribute(f, v)>> :
                      f \in {FieldPart, FieldConformance},
                      v \in {<<"3">>, <<"B">>}}}

(* The largest number of metadata lines of a buffer handed to validate.   *)
MaxFields == 2

FieldLines == {<<>>, PAT_PDFA3 \o <<"\n">>, XmpOther \o <<"\n">>} \cup XmpFields

ValidateBuffers ==
    {Concat(<<h>> \o fs) :
        h \in {HeaderOk, HeaderNotPdf, BufTruncatedSig},
        fs \in [1..MaxFields -> FieldLines]}

InitValidate ==
    /\ pdf_bytes \in ValidateBuffers
    /\ pc = "validate"
    /\ embedded_files = <<>>
    /\ xml_file = None
    /\ xml_contents = <<>>
    /\ result = NoResponse
    /\ stages = <<>>
    /\ catalog_pos = None
    /\ obj_start = 0
    /\ catalog = None
    /\ validation = None
    /\ extracted = None

(* validation is the error of the call, None after Ok(()).                 *)
Validate ==
    /\ pc = "validate"
    /\ validation' = validate(pdf_bytes)
    /\ pc' = "validated"
    /\ stages' = Append(stages, "validate")
    /\ UNCHANGED <<pdf_bytes, embedded_files, xml_file, xml_contents, result,
                   catalog_pos, obj_start, catalog, extracted>>

NextValidate == Validate

SpecValidate == InitValidate /\ [][NextValidate]_vars

(* The markers the validator is described to recognise: the literal        *)
(* PDF/A-3, or the field pdfaid:part or pdfaid:conformance with the value  *)
(* 3, as an element or as an attribute.                                    *)
RecognizedMarker(bytes) ==
    \/ Contains(bytes, PAT_PDFA3)
    \/ \E f \in {FieldPart, FieldConformance} :
          \/ Contains(bytes, FieldElement(f, <<"3">>))
          \/ Contains(bytes, FieldAttribute(f, <<"3">>))

(* C14: on a buffer with the signature validate succeeds exactly when the  *)
(* buffer holds a recognised marker somewhere: a field with a value other  *)
(* than 3 does not make it conformant, the attribute form with 3 does.     *)
C14_ConformantIffMarker ==
    (pc = "validated" /\ HasSignature(pdf_bytes)) =>
        (validation = None <=> RecognizedMarker(pdf_bytes))

-----------------------------------------------------------------------------
(* One call of extract_xml_content on one buffer, of extract_xml.rs or of  *)
(* pdf.rs.                                                                 *)

StrayEndstream ==
    <<"e", "n", "d", "s", "t", "r", "e", "a", "m", "\n", "<", "?", "x",
      "m", "l", "?", ">", "\n", "e", "n", "d", "s", "t", "r", "e", "a",
      "m", "\n">>

StreamCr ==
    <<"3", " ", "0", " ", "o", "b", "j", "\n", "s", "t", "r", "e", "a",
      "m", "\r", "<", "?", "x", "m", "l", "?", ">", "\r", "e", "n", "d",
      "s", "t", "r", "e", "a", "m", "\r">>

SubtypeXml ==
    <<"<", "<", " ", "/", "S", "u", "b", "t", "y", "p", "e", " ", "/", "t",
      "e", "x", "t", "#", "2", "F", "x", "m", "l", " ", ">", ">", "\n">>

FileSpec ==
    <<"<", "<", " ", "/", "F", " ", "(", "f", "a", "c", "t", "u", "r", "-",
      "x", ".", "x", "m", "l", ")", " ", ">", ">", "\n">>

Umlaut ==
    <<"xC3", "xA4">>

InvalidByte ==
    <<"xFF">>

StreamPieces == Streams \cup {StrayEndstream, StreamCr}

(* The file name exactly SearchWindow + d bytes after the start of a       *)
(* character of more than one byte, for d up to MaxShift.                  *)
MaxShift == 3

ShiftedBuffers ==
    {HeaderOk \o ch \o Filler(SearchWindow - Len(from_utf8_lossy(ch)) + d)
       \o NameFacturX \o <<"\n">> \o StreamXml :
        ch \in {Umlaut, InvalidByte}, d \in 0..MaxShift}

StreamBuffers ==
    ShiftedBuffers \cup
    {HeaderOk \o s1 \o f \o t \o s2 :
        s1 \in StreamPieces, f \in {<<>>, FileSpec}, t \in {<<>>, SubtypeXml},
        s2 \in StreamPieces}

InitStream ==
    /\ pdf_bytes \in StreamBuffers
    /\ pc = "stream"
    /\ embedded_files = <<>>
    /\ xml_file = None
    /\ xml_contents = <<>>
    /\ result = NoResponse
    /\ stages = <<>>
    /\ catalog_pos = None
    /\ obj_start = 0
    /\ catalog = None
    /\ validation = None
    /\ extracted = None

(* extract_xml.rs: extract_xml_content returns, or panics at the slice of  *)
(* the search section.                                                     *)
ExtractXmlContent ==
    /\ pc = "stream"
    /\ stages' = Append(stages, "extract_xml_content")
    /\ IF extract_xml_content_panics(pdf_bytes)
       THEN /\ pc' = "panic"
            /\ UNCHANGED extracted
       ELSE /\ pc' = "stream_done"
            /\ extracted' = extract_xml_content(pdf_bytes)
    /\ UNCHANGED <<pdf_bytes, embedded_files, xml_file, xml_contents, result,
                   catalog_pos, obj_start, catalog, validation>>

(* pdf.rs: extract_xml_content returns.                                    *)
ExtractXmlContentPdf ==
    /\ pc = "stream"
    /\ stages' = Append(stages, "pdf::extract_xml_content")
    /\ pc' = "loop_done"
    /\ extracted' = extract_xml_content_pdf(pdf_bytes)
    /\ UNCHANGED <<pdf_bytes, embedded_files, xml_file, xml_contents, result,
                   catalog_pos, obj_start, catalog, validation>>

NextStream ==
    \/ ExtractXmlContent
    \/ ExtractXmlContentPdf

SpecStream == InitStream /\ [][NextStream]_vars

(* The offsets at which a stream keyword stands: the word stream that is   *)
(* not the tail of an endstream.                                           *)
StreamKeywords(text) ==
    {p \in 0..(Len(text) - Len(PAT_STREAM)) :
        /\ Slice(text, p, p + Len(PAT_STREAM)) = PAT_STREAM
        /\ ~(p >= 3 /\ Slice(text, p - 3, p + Len(PAT_STREAM)) = PAT_ENDSTREAM)}

(* C15: the content returned is the whitespace-trimmed text strictly       *)
(* between a stream keyword and the nearest endstream after it: it never   *)
(* begins at the stream tail of an endstream keyword and never runs past   *)
(* an endstream into a following object.                                   *)
C15_ContentBetweenKeywords ==
    (pc \in {"stream_done", "loop_done"} /\ extracted # None) =>
        LET text == from_utf8_lossy(pdf_bytes)
        IN  \E p \in StreamKeywords(text) :
                /\ StreamBodyAt(text, p) # None
                /\ extracted[1] = Trim(StreamBodyAt(text, p)[1])

(* C17: for every buffer, whatever its bytes, the slices of                *)
(* extract_xml_content lie within the text and on character boundaries,    *)
(* so the call returns a value and does not panic.                         *)
C17_NoPanic == pc # "panic"


=============================================================================
